---------------------------- MODULE Spec2Model ----------------------------
(***************************************************************************)
(* Access-control and lifecycle engine of the file sharing service         *)
(* (src/app.py, src/models.py).                                            *)
(*                                                                         *)
(* Shared state is the upload folder (blobs) and the File table (rows).    *)
(* Every request is served by a worker; a worker's ORM session holds the   *)
(* attributes of the row it loaded (snap) and, at commit, writes back only *)
(* the attributes that differ from the loaded ones.  A request is a        *)
(* sequence of steps, one per access to the folder or the table; the       *)
(* steps of concurrent requests interleave.                                *)
(***************************************************************************)
EXTENDS Integers, FiniteSets, Sequences, TLC

VARIABLES
    blobs,      \* stored names that have a file in UPLOAD_FOLDER
    rows,       \* File table: row id -> record
    nextId,     \* next primary key
    clock,      \* the millisecond timestamp of the latest upload
    wk,         \* worker -> its request in progress: position in the handler
                \*   (pc), the request (req), the File object of its session
                \*   (snap), whether check_view_limit_and_delete returned True
                \*   (did), whether another worker removed the blob meanwhile
                \*   (raced), whether it was admitted together with another
                \*   download of the same record at its last view (tied)
    res         \* worker -> the response to its last request

vars == <<blobs, rows, nextId, clock, wk, res>>

store == <<blobs, rows, nextId, clock>>

-----------------------------------------------------------------------------
(* Bounds of the model *)

MaxClock == 1     \* uploads: the clock's last millisecond
MaxLimit == 2     \* largest view limit an admin sets

MaxRows == MaxClock + 1    \* rows ever inserted: the uploads' and one more
MaxViews == MaxLimit       \* no download starts from a view_count this large

Procs == {"w1", "w2"}
(* Names are sequences of characters: a.txt *)
DisplayNames == {<<"a", ".", "t", "x", "t">>}
Tokens == {"t1", "t2"}
Passwords == {"pw1", "pw2"}
Salts == {1, 2}

(* None of a nullable Integer column (models.py: view_limit). *)
NoLimit == -1
NoToken == "None"
NoPassword == "None"
NoStamp == "None"
Stamp == "utcnow"

Limits == {NoLimit} \cup (0..MaxLimit)

(* Strings of the names, as Python computes on them *)
Chars(s) == {s[i] : i \in 1..Len(s)}

FirstIndex(s, c) ==
    IF c \notin Chars(s) THEN 0
    ELSE CHOOSE i \in 1..Len(s) : s[i] = c /\ \A j \in 1..(i - 1) : s[j] # c

LastIndex(s, c) ==
    IF c \notin Chars(s) THEN 0
    ELSE CHOOSE i \in 1..Len(s) : s[i] = c /\ \A j \in (i + 1)..Len(s) : s[j] # c

DigitChars == <<"0", "1", "2", "3", "4", "5", "6", "7", "8", "9">>

(* str(n) of a natural number *)
RECURSIVE str(_)
str(n) ==
    IF n < 10 THEN <<DigitChars[n + 1]>>
    ELSE str(n \div 10) \o <<DigitChars[(n % 10) + 1]>>

(* s.isdigit() *)
isdigit(s) == s # <<>> /\ Chars(s) \subseteq Chars(DigitChars)

(* s.replace(c, '') *)
Without(s, c) == SelectSeq(s, LAMBDA x : x # c)

(* os.path.splitext: the extension begins at the last dot, unless only     *)
(* dots come before it.                                                    *)
splitext(s) ==
    LET i == LastIndex(s, ".")
    IN  IF i = 0 \/ \A j \in 1..(i - 1) : s[j] = "."
        THEN <<s, <<>>>>
        ELSE <<SubSeq(s, 1, i - 1), SubSeq(s, i, Len(s))>>

(* line 40 *)
ALLOWED_EXTENSIONS ==
    {<<"j", "p", "g">>, <<"j", "p", "e", "g">>, <<"p", "n", "g">>, <<"g", "i", "f">>,
     <<"p", "d", "f">>, <<"d", "o", "c">>, <<"d", "o", "c", "x">>, <<"t", "x", "t">>,
     <<"z", "i", "p">>, <<"r", "a", "r">>, <<"m", "p", "3">>, <<"m", "p", "4">>,
     <<"a", "v", "i">>}

(* lines 48-50, for a name in lower case *)
allowed_file(s) ==
    /\ "." \in Chars(s)
    /\ SubSeq(s, LastIndex(s, ".") + 1, Len(s)) \in ALLOWED_EXTENSIONS

(* upload_files, lines 211-214: the stored name of a display name saved at *)
(* millisecond timestamp: name_timestamp.ext                               *)
StoredName(display, timestamp) ==
    splitext(display)[1] \o <<"_">> \o str(timestamp) \o splitext(display)[2]

(* get_files, lines 140-145: the display name of a stored name *)
original_name(filename) ==
    LET i == LastIndex(filename, "_")
        tail == SubSeq(filename, i + 1, Len(filename))
    IN  IF i # 0 /\ isdigit(Without(tail, "."))
        THEN SubSeq(filename, 1, i - 1) \o
             (IF "." \notin Chars(tail) THEN <<>>
              ELSE <<".">> \o SubSeq(tail, FirstIndex(tail, ".") + 1, Len(tail)))
        ELSE filename

Names == {StoredName(d, t) : d \in DisplayNames, t \in 1..MaxClock}

NoName == <<"None">>

-----------------------------------------------------------------------------
(* werkzeug.security: a salted hash, and its check.  The digest is taken   *)
(* to be collision free.                                                   *)

Digest(salt, password) == <<salt, password>>

NoHash == [salt |-> 0, dig |-> <<0, NoPassword>>]

generate_password_hash(password, salt) ==
    [salt |-> salt, dig |-> Digest(salt, password)]

check_password_hash(pwhash, password) ==
    pwhash.dig = Digest(pwhash.salt, password)

-----------------------------------------------------------------------------
(* models.File: the columns the handlers read or write, with the column    *)
(* defaults of a row inserted without them.                                *)

File(filename, is_hidden, hidden_token, view_limit, password_hash, is_pp) ==
    [filename |-> filename,
     is_hidden |-> is_hidden,
     hidden_token |-> hidden_token,
     view_limit |-> view_limit,
     view_count |-> 0,
     password_hash |-> password_hash,
     is_password_protected |-> is_pp,
     last_accessed |-> NoStamp]

NewFile(filename) == File(filename, FALSE, NoToken, NoLimit, NoHash, FALSE)

Columns == {"filename", "is_hidden", "hidden_token", "view_limit",
            "view_count", "password_hash", "is_password_protected",
            "last_accessed"}

(* The session's object: the row id it was loaded from (0: no row, or a    *)
(* pending insert), the attributes as loaded, and the attributes as set.   *)
NoSnap == [id |-> 0, old |-> NewFile(NoName), new |-> NewFile(NoName), pending |-> FALSE]

Loaded(id) == [id |-> id, old |-> rows[id], new |-> rows[id], pending |-> FALSE]

Pending(filename) ==
    [id |-> 0, old |-> NewFile(filename), new |-> NewFile(filename), pending |-> TRUE]

HasRecord(s) == s.id # 0 \/ s.pending

(* File.query.filter_by(filename=f).first(): any row of that name (the     *)
(* query states no order), or None.                                        *)
RowsNamed(f) == {id \in DOMAIN rows : rows[id].filename = f}

(* The UPDATE a flush emits: only the attributes whose value differs from  *)
(* the loaded one are written, onto the row as it is now.                  *)
Changed(s) == {c \in Columns : s.new[c] # s.old[c]}

FlushUpdate(s) ==
    [c \in Columns |-> IF c \in Changed(s) THEN s.new[c] ELSE rows[s.id][c]]

(* hidden_token is UNIQUE: a flush that would leave two rows with the same *)
(* non-null token raises IntegrityError.                                   *)
TokenTaken(tok, exceptId) ==
    /\ tok # NoToken
    /\ \E id \in DOMAIN rows : id # exceptId /\ rows[id].hidden_token = tok

-----------------------------------------------------------------------------
(* Requests and responses *)

(* admin_required, app.py 52-62, and get_files, lines 123-125 *)
valid_key == "admin123"

NoKey == "None"

Bearer(key) == "Bearer " \o key

(* The values of the Authorization header and of the adminKey parameter *)
Keys == {NoKey, "", valid_key, Bearer(valid_key), "wrong"}

(* line 55: request.headers.get('Authorization') or                        *)
(* request.args.get('adminKey')                                            *)
admin_key(authorization, adminKey) ==
    IF authorization \notin {NoKey, ""} THEN authorization ELSE adminKey

(* line 58 *)
IsAdmin(authorization, adminKey) ==
    LET key == admin_key(authorization, adminKey)
    IN  key = valid_key \/ key = Bearer(valid_key)

(* A request said to carry the admin key has it in its Authorization       *)
(* header; one said not to carries no key.                                 *)
KeyOf(admin) ==
    [authorization |-> IF admin THEN valid_key ELSE NoKey, adminKey |-> NoKey]

Request(op, f, token, password, admin) ==
    [op |-> op, f |-> f, token |-> token, password |-> password, admin |-> admin,
     hidden |-> FALSE, limit |-> NoLimit, key |-> KeyOf(admin)]

(* Request r sent with the given header and parameter *)
Keyed(r, authorization, adminKey) ==
    [r EXCEPT !.key = [authorization |-> authorization, adminKey |-> adminKey],
              !.admin = IsAdmin(authorization, adminKey)]

NoRequest == Request("none", NoName, NoToken, NoPassword, FALSE)

(* A response, kept with the operation it answers, whether the request    *)
(* carried the admin key, in which header or parameter, and whether it     *)
(* asked for the hidden files.                                             *)
Response(r, code, body) ==
    [op |-> r.op, admin |-> r.admin, hidden |-> r.hidden, key |-> r.key,
     code |-> code, body |-> body, entries |-> {}]

Listing(r, entries) == [Response(r, 200, "files") EXCEPT !.entries = entries]

NoResponse == Response(NoRequest, 0, "none")

Idle == [pc |-> "idle", req |-> NoRequest, snap |-> NoSnap,
         did |-> FALSE, raced |-> FALSE, tied |-> FALSE]

Init ==
    /\ blobs = {}
    /\ rows = <<>>
    /\ nextId = 1
    /\ clock = 0
    /\ wk = [p \in Procs |-> Idle]
    /\ res = [p \in Procs |-> NoResponse]

(* A worker takes request r with a new session and goes to step at,        *)
(* holding object s.                                                       *)
Begin(p, r, at, s) ==
    /\ wk[p].pc = "idle"
    /\ wk' = [wk EXCEPT ![p] = [Idle EXCEPT !.pc = at, !.req = r, !.snap = s]]
    /\ res' = [res EXCEPT ![p] = NoResponse]

(* A worker takes a request and answers it in one step. *)
Answer(p, response) ==
    /\ wk[p].pc = "idle"
    /\ res' = [res EXCEPT ![p] = response]
    /\ UNCHANGED wk

(* A worker answers: the request is over, and its session with it. *)
Reply(p, code, body) ==
    /\ wk' = [wk EXCEPT ![p] = Idle]
    /\ res' = [res EXCEPT ![p] = Response(wk[p].req, code, body)]

Goto(p, at) ==
    /\ wk' = [wk EXCEPT ![p].pc = at]
    /\ UNCHANGED res

GotoWith(p, at, s) ==
    /\ wk' = [wk EXCEPT ![p].pc = at, ![p].snap = s]
    /\ UNCHANGED res

(* os.remove(filepath) by worker p, which goes to step at: the downloads   *)
(* of that name in progress in other workers have raced a deletion.        *)
Racing(q, f) == wk[q].pc # "idle" /\ wk[q].req.op = "download" /\ wk[q].req.f = f

RemoveBlob(p, f, at) ==
    /\ blobs' = blobs \ {f}
    /\ wk' = [q \in Procs |->
                IF q = p THEN [wk[p] EXCEPT !.pc = at]
                ELSE IF Racing(q, f) THEN [wk[q] EXCEPT !.raced = TRUE]
                ELSE wk[q]]
    /\ UNCHANGED res

-----------------------------------------------------------------------------
(* download_file, app.py 272-325 *)

(* line 284: File.query.filter_by(filename=filename).first() *)
DlRead(p, f, token, password, admin) ==
    /\ \/ /\ RowsNamed(f) = {}
          /\ Begin(p, Request("download", f, token, password, admin), "dl_exists", NoSnap)
       \/ \E id \in RowsNamed(f) :
             /\ rows[id].view_count < MaxViews
             /\ Begin(p, Request("download", f, token, password, admin), "dl_exists",
                      Loaded(id))
    /\ UNCHANGED store

(* A token check that lets a request without a token through. *)
TokenDeniedIfWrong(s, r) ==
    /\ HasRecord(s)
    /\ s.old.is_hidden
    /\ r.token # NoToken
    /\ r.token # s.old.hidden_token

(* A token check that also refuses a blob that has no record. *)
TokenDeniedWithoutRecord(s, r) ==
    \/ ~HasRecord(s)
    \/ /\ s.old.is_hidden
       /\ (r.token = NoToken \/ r.token # s.old.hidden_token)

(* A token check that exempts the holder of the admin key. *)
TokenDeniedUnlessAdmin(s, r) ==
    /\ HasRecord(s)
    /\ s.old.is_hidden
    /\ ~r.admin
    /\ (r.token = NoToken \/ r.token # s.old.hidden_token)

(* The decision of lines 292-302 on the loaded record: 0 when the request  *)
(* passes, else the status of the denial; 500 when check_password_hash     *)
(* raises on a record without hash (AttributeError, handled at 323-325).   *)
TokenDenied(s, r) ==
    /\ HasRecord(s)
    /\ s.old.is_hidden
    /\ (r.token = NoToken \/ r.token # s.old.hidden_token)

PasswordStatus(s, r) ==
    IF HasRecord(s) /\ s.old.is_password_protected
    THEN IF r.password = NoPassword THEN 401
         ELSE IF s.old.password_hash = NoHash THEN 500
         ELSE IF ~check_password_hash(s.old.password_hash, r.password) THEN 401
         ELSE 0
    ELSE 0

Authorize(s, r) == IF TokenDenied(s, r) THEN 403 ELSE PasswordStatus(s, r)

DenialBody(s, r) ==
    IF TokenDenied(s, r) THEN "Invalid or missing access token"
    ELSE IF r.password = NoPassword THEN "Password required, requiresPassword"
    ELSE IF s.old.password_hash = NoHash THEN "error"
    ELSE "Invalid password"

(* lines 289-290: abort(404) is raised inside the handler's try; the       *)
(* except Exception clause of line 323 catches the HTTPException and       *)
(* aborts with 500.                                                        *)
NotFoundCode == 500

(* lines 306-307 *)
Viewed(s) ==
    [s EXCEPT !.new.view_count = @ + 1, !.new.last_accessed = Stamp]

(* Two downloads that loaded the same record with view_limit 1 and         *)
(* view_count 0 and are both admitted before either commits are tied.      *)
LastView(s) == s.id # 0 /\ s.old.view_limit = 1 /\ s.old.view_count = 0

Ties(p, q) ==
    /\ q # p
    /\ wk[q].pc = "dl_commit"
    /\ LastView(wk[p].snap)
    /\ wk[q].snap.id = wk[p].snap.id
    /\ wk[q].snap.old = wk[p].snap.old

Admit(p) ==
    /\ wk' = [q \in Procs |->
                IF q = p
                THEN [wk[p] EXCEPT !.pc = "dl_commit", !.snap = Viewed(wk[p].snap),
                                   !.tied = \E o \in Procs : Ties(p, o)]
                ELSE IF Ties(p, q) THEN [wk[q] EXCEPT !.tied = TRUE]
                ELSE wk[q]]
    /\ UNCHANGED res

(* A download that counts the view before it checks token and password. *)
DlExistsCounting(p) ==
    /\ wk[p].pc = "dl_exists"
    /\ IF wk[p].req.f \notin blobs
       THEN Reply(p, NotFoundCode, "error") /\ UNCHANGED rows
       ELSE IF Authorize(wk[p].snap, wk[p].req) # 0
       THEN /\ Reply(p, Authorize(wk[p].snap, wk[p].req), DenialBody(wk[p].snap, wk[p].req))
            /\ IF wk[p].snap.id \in DOMAIN rows
               THEN rows' = [rows EXCEPT ![wk[p].snap.id].view_count = @ + 1]
               ELSE UNCHANGED rows
       ELSE IF HasRecord(wk[p].snap)
       THEN Admit(p) /\ UNCHANGED rows
       ELSE Goto(p, "dl_send") /\ UNCHANGED rows
    /\ UNCHANGED <<blobs, nextId, clock>>

(* lines 288-307: os.path.exists(filepath), then the checks on the loaded  *)
(* record and the assignments to it.                                       *)
DlExists(p) ==
    /\ wk[p].pc = "dl_exists"
    /\ IF wk[p].req.f \notin blobs
       THEN Reply(p, NotFoundCode, "error")
       ELSE IF Authorize(wk[p].snap, wk[p].req) # 0
       THEN Reply(p, Authorize(wk[p].snap, wk[p].req), DenialBody(wk[p].snap, wk[p].req))
       ELSE IF HasRecord(wk[p].snap)
       THEN Admit(p)
       ELSE Goto(p, "dl_send")
    /\ UNCHANGED store

(* line 310, db.session.commit(): UPDATE ... WHERE id; a row that is gone  *)
(* makes the flush raise StaleDataError, handled at 317-319.               *)
DlCommit(p) ==
    /\ wk[p].pc = "dl_commit"
    /\ IF wk[p].snap.id \in DOMAIN rows
       THEN /\ rows' = [rows EXCEPT ![wk[p].snap.id] = FlushUpdate(wk[p].snap)]
            /\ Goto(p, "dl_check")
       ELSE /\ Goto(p, "dl_send")
            /\ UNCHANGED rows
    /\ UNCHANGED <<blobs, nextId, clock>>

(* A limit check that allows one view more than the limit. *)
LimitExceeded(r) ==
    /\ r.view_limit # NoLimit
    /\ r.view_limit # 0
    /\ r.view_count > r.view_limit

(* check_view_limit_and_delete, line 86: the object, expired by the        *)
(* commit, is reloaded (ObjectDeletedError when the row is gone, handled   *)
(* at 317-319).                                                            *)
LimitReached(r) ==
    /\ r.view_limit # NoLimit
    /\ r.view_limit # 0
    /\ r.view_count >= r.view_limit

DlCheck(p) ==
    /\ wk[p].pc = "dl_check"
    /\ IF wk[p].snap.id \in DOMAIN rows
       THEN IF LimitReached(rows[wk[p].snap.id])
            THEN GotoWith(p, "dl_rmexists", Loaded(wk[p].snap.id))
            ELSE GotoWith(p, "dl_send", Loaded(wk[p].snap.id))
       ELSE Goto(p, "dl_send")
    /\ UNCHANGED store

(* line 89: os.path.exists(filepath) *)
DlRmExists(p) ==
    /\ wk[p].pc = "dl_rmexists"
    /\ IF wk[p].snap.old.filename \in blobs
       THEN Goto(p, "dl_remove")
       ELSE Goto(p, "dl_delrow")
    /\ UNCHANGED store

(* line 90: os.remove(filepath); FileNotFoundError is handled at 94-97     *)
(* and the function returns False.                                         *)
DlRemove(p) ==
    /\ wk[p].pc = "dl_remove"
    /\ IF wk[p].snap.old.filename \in blobs
       THEN RemoveBlob(p, wk[p].snap.old.filename, "dl_delrow")
       ELSE Goto(p, "dl_send") /\ UNCHANGED blobs
    /\ UNCHANGED <<rows, nextId, clock>>

(* lines 91-93: DELETE ... WHERE id and commit, and return True; a DELETE  *)
(* that matches no row is a warning of the ORM, not an error.              *)
DeleteRow(id) == rows' = [i \in DOMAIN rows \ {id} |-> rows[i]]

DlDelRow(p) ==
    /\ wk[p].pc = "dl_delrow"
    /\ DeleteRow(wk[p].snap.id)
    /\ wk' = [wk EXCEPT ![p].pc = "dl_send", ![p].did = TRUE]
    /\ UNCHANGED <<blobs, nextId, clock, res>>

(* line 322: send_file(filepath) opens the file; FileNotFoundError is      *)
(* handled at 323-325 with abort(500).                                     *)
SendFile(p) ==
    IF wk[p].req.f \in blobs THEN Reply(p, 200, "content") ELSE Reply(p, 500, "error")

DlSend(p) ==
    /\ wk[p].pc = "dl_send"
    /\ SendFile(p)
    /\ UNCHANGED store

-----------------------------------------------------------------------------
(* admin_required, app.py 52-62: the request carries the valid key or not. *)
Denied(p, r) ==
    /\ Answer(p, Response(r, 403, "Access denied. Admin key required."))
    /\ UNCHANGED store

(* Rows being inserted by requests in progress: the model inserts MaxRows  *)
(* rows at most.                                                           *)
Inserting ==
    {q \in Procs : wk[q].pc = "up_insert" \/ (wk[q].pc = "mut_commit" /\ wk[q].snap.pending)}

CanInsert == nextId + Cardinality(Inserting) <= MaxRows

InsertRow(r) ==
    /\ rows' = [i \in DOMAIN rows \cup {nextId} |-> IF i = nextId THEN r ELSE rows[i]]
    /\ nextId' = nextId + 1

-----------------------------------------------------------------------------
(* upload_files, app.py 188-270, for a request with one allowed file.      *)

(* lines 211-217: the stored name from the clock, and file.save(filepath)  *)
UpSave(p, display, timestamp, is_hidden, view_limit, password, admin) ==
    LET r == [Request("upload", StoredName(display, timestamp), NoToken, password, admin)
                 EXCEPT !.hidden = is_hidden, !.limit = view_limit]
    IN  IF ~admin THEN Denied(p, r)
        ELSE /\ CanInsert
             /\ timestamp \in {clock, clock + 1} \cap (1..MaxClock)
             /\ Begin(p, r, "up_insert", NoSnap)
             /\ blobs' = blobs \cup {r.f}
             /\ clock' = timestamp
             /\ UNCHANGED <<rows, nextId>>

(* lines 227-237: the record, with the token generate_hidden_token draws   *)
(* and the salt generate_password_hash draws.                              *)
UploadRecord(r, token, salt) ==
    File(r.f,
         r.hidden,
         IF r.hidden THEN token ELSE NoToken,
         r.limit,
         IF r.password # NoPassword THEN generate_password_hash(r.password, salt) ELSE NoHash,
         r.password # NoPassword)

(* lines 239-266: add and commit; an exception of the commit               *)
(* (IntegrityError on hidden_token) is logged and the upload succeeds      *)
(* without a record.                                                       *)
UpInsert(p) ==
    /\ wk[p].pc = "up_insert"
    /\ \E token \in Tokens, salt \in Salts :
          LET r == UploadRecord(wk[p].req, token, salt)
          IN  IF TokenTaken(r.hidden_token, 0)
              THEN UNCHANGED <<rows, nextId>>
              ELSE InsertRow(r)
    /\ Reply(p, 200, "uploaded")
    /\ UNCHANGED <<blobs, clock>>

-----------------------------------------------------------------------------
(* delete_file, app.py 327-352 *)

(* line 333: os.path.exists(filepath) *)
DelExists(p, f, admin) ==
    LET r == Request("delete", f, NoToken, NoPassword, admin)
    IN  IF ~admin THEN Denied(p, r)
        ELSE /\ IF f \in blobs
                THEN Begin(p, r, "del_remove", NoSnap)
                ELSE Answer(p, Response(r, 404, "File not found"))
             /\ UNCHANGED store

(* line 334: os.remove(filepath); FileNotFoundError reaches line 350 *)
DelRemove(p) ==
    /\ wk[p].pc = "del_remove"
    /\ IF wk[p].req.f \in blobs
       THEN RemoveBlob(p, wk[p].req.f, "del_read")
       ELSE Reply(p, 500, "Delete failed") /\ UNCHANGED blobs
    /\ UNCHANGED <<rows, nextId, clock>>

(* line 339: File.query.filter_by(filename=filename).first() *)
DelRead(p) ==
    /\ wk[p].pc = "del_read"
    /\ \/ /\ RowsNamed(wk[p].req.f) = {}
          /\ Reply(p, 200, "deleted")
       \/ \E id \in RowsNamed(wk[p].req.f) : GotoWith(p, "del_commit", Loaded(id))
    /\ UNCHANGED store

(* lines 341-347: DELETE and commit *)
DelCommit(p) ==
    /\ wk[p].pc = "del_commit"
    /\ DeleteRow(wk[p].snap.id)
    /\ Reply(p, 200, "deleted")
    /\ UNCHANGED <<blobs, nextId, clock>>

-----------------------------------------------------------------------------
(* The admin mutations of a record: toggle_file_hidden (394-435),          *)
(* set_file_password (437-482), set_view_limit (484-525), which create the *)
(* record of a blob that has none, and reset_view_count (527-550).  They   *)
(* share the steps: load the record; if there is none, os.path.exists and  *)
(* a new File added to the session; the assignments; the commit; the       *)
(* response, which reads the object again.                                 *)

(* A toggle that leaves the token on a record it makes public. *)
ToggleHiddenKeepingToken(rec, token) ==
    LET hidden == ~rec.is_hidden
    IN  [rec EXCEPT !.is_hidden = hidden,
                    !.hidden_token = IF hidden /\ rec.hidden_token = NoToken THEN token
                                     ELSE @]

(* lines 417-421 *)
ToggleHidden(rec, token) ==
    LET hidden == ~rec.is_hidden
    IN  [rec EXCEPT !.is_hidden = hidden,
                    !.hidden_token = IF hidden /\ rec.hidden_token = NoToken THEN token
                                     ELSE IF ~hidden THEN NoToken
                                     ELSE @]

(* lines 463-469, the password as stripped at line 443 *)
SetPassword(rec, password, salt) ==
    IF password # NoPassword
    THEN [rec EXCEPT !.password_hash = generate_password_hash(password, salt),
                     !.is_password_protected = TRUE]
    ELSE [rec EXCEPT !.password_hash = NoHash,
                     !.is_password_protected = FALSE]

(* generate_password_hash draws a new salt: the hash differs from the one  *)
(* loaded.                                                                 *)
FreshSalts(rec) == {s \in Salts : s # rec.password_hash.salt}

(* line 513 *)
SetLimit(rec, view_limit) == [rec EXCEPT !.view_limit = view_limit]

(* line 538 *)
ResetViews(rec) == [rec EXCEPT !.view_count = 0]

Mutated(s, r) ==
    CASE r.op = "toggle" ->
            {[s EXCEPT !.new = ToggleHidden(s.old, token)] : token \in Tokens}
      [] r.op = "set-password" ->
            {[s EXCEPT !.new = SetPassword(s.old, r.password, salt)] : salt \in FreshSalts(s.old)}
      [] r.op = "set-view-limit" ->
            {[s EXCEPT !.new = SetLimit(s.old, r.limit)]}
      [] OTHER ->
            {[s EXCEPT !.new = ResetViews(s.old)]}

(* lines 400, 446, 496 and 533:                                            *)
(* File.query.filter_by(filename=filename).first(); reset_view_count       *)
(* creates no record (lines 535-536).                                      *)
MutRead(p, r) ==
    IF ~r.admin THEN Denied(p, r)
    ELSE /\ \/ /\ RowsNamed(r.f) = {}
               /\ IF r.op = "reset-views"
                  THEN Answer(p, Response(r, 404, "File record not found"))
                  ELSE Begin(p, r, "mut_exists", NoSnap)
            \/ \E id \in RowsNamed(r.f) : \E s \in Mutated(Loaded(id), r) :
                  Begin(p, r, "mut_commit", s)
         /\ UNCHANGED store

(* lines 404-415 and 450-461 *)
MutExists(p) ==
    /\ wk[p].pc = "mut_exists"
    /\ IF wk[p].req.f \notin blobs
       THEN Reply(p, 404, "File not found")
       ELSE /\ CanInsert
            /\ \E s \in Mutated(Pending(wk[p].req.f), wk[p].req) : GotoWith(p, "mut_commit", s)
    /\ UNCHANGED store

(* lines 423 and 472, db.session.commit(): INSERT of the new record, or    *)
(* UPDATE of the changed attributes; IntegrityError (hidden_token) and     *)
(* StaleDataError (the row is gone) reach the handler's except clause:     *)
(* rollback and 500.                                                       *)
MutCommit(p) ==
    /\ wk[p].pc = "mut_commit"
    /\ LET s == wk[p].snap
       IN  IF s.pending
           THEN IF TokenTaken(s.new.hidden_token, 0)
                THEN Reply(p, 500, "Failed") /\ UNCHANGED <<rows, nextId>>
                ELSE /\ InsertRow(s.new)
                     /\ GotoWith(p, "mut_reply", [s EXCEPT !.id = nextId, !.pending = FALSE])
           ELSE IF Changed(s) = {}
           THEN Goto(p, "mut_reply") /\ UNCHANGED <<rows, nextId>>
           ELSE IF s.id \notin DOMAIN rows
                   \/ ("hidden_token" \in Changed(s) /\ TokenTaken(s.new.hidden_token, s.id))
           THEN Reply(p, 500, "Failed") /\ UNCHANGED <<rows, nextId>>
           ELSE /\ rows' = [rows EXCEPT ![s.id] = FlushUpdate(s)]
                /\ Goto(p, "mut_reply")
                /\ UNCHANGED nextId
    /\ UNCHANGED <<blobs, clock>>

(* lines 425-430 and 474-477: the response reads the committed object,     *)
(* which the session reloads (ObjectDeletedError when the row is gone:     *)
(* 500).                                                                   *)
MutReply(p) ==
    /\ wk[p].pc = "mut_reply"
    /\ IF wk[p].snap.id \in DOMAIN rows
       THEN Reply(p, 200, "ok")
       ELSE Reply(p, 500, "Failed")
    /\ UNCHANGED store

(* The mutation of worker p finds no blob: it creates no record. *)
BlobGone(p) == wk[p].req.f \notin blobs

ToggleFileHidden(p, f, admin) ==
    MutRead(p, Request("toggle", f, NoToken, NoPassword, admin))

SetFilePassword(p, f, password, admin) ==
    MutRead(p, Request("set-password", f, NoToken, password, admin))

(* set_view_limit, app.py 484-525; line 492 lets through null and the      *)
(* integers from 0 on.                                                     *)
SetViewLimit(p, f, view_limit, admin) ==
    MutRead(p, [Request("set-view-limit", f, NoToken, NoPassword, admin)
                   EXCEPT !.limit = view_limit])

(* reset_view_count, app.py 527-550 *)
ResetViewCount(p, f, admin) ==
    MutRead(p, Request("reset-views", f, NoToken, NoPassword, admin))

-----------------------------------------------------------------------------
(* get_files, app.py 117-186 *)

(* lines 139-173: the entry of a blob, joined with its record if any *)
ListingEntry(f, id, is_admin) ==
    IF id = 0
    THEN [name |-> f, originalName |-> original_name(f),
          isHidden |-> FALSE, hiddenToken |-> NoToken,
          isPasswordProtected |-> FALSE, viewCount |-> 0, viewLimit |-> NoLimit]
    ELSE [name |-> f, originalName |-> original_name(f),
          isHidden |-> rows[id].is_hidden,
          hiddenToken |-> IF is_admin THEN rows[id].hidden_token ELSE NoToken,
          isPasswordProtected |-> rows[id].is_password_protected,
          viewCount |-> rows[id].view_count, viewLimit |-> rows[id].view_limit]

(* A listing filter that reads the hidden flag of the request inverted. *)
FilteredOnRequest(id, is_admin, show_hidden) ==
    id # 0 /\ rows[id].is_hidden /\ ~is_admin /\ show_hidden

(* lines 175-177 *)
Filtered(id, is_admin, show_hidden) ==
    id # 0 /\ rows[id].is_hidden /\ ~is_admin /\ ~show_hidden

(* line 164: .first() of each blob's records, 0 for none *)
FirstOf(f) == IF RowsNamed(f) = {} THEN {0} ELSE RowsNamed(f)

(* lines 162-181: broken are the blobs whose query of line 164 raises; the *)
(* except clause of line 178 logs the error and line 181 appends the entry *)
(* as built at lines 148-159, without record.                              *)
Queried(f, broken) == IF f \in broken THEN {0} ELSE FirstOf(f)

GetFiles(p, show_hidden, is_admin, broken) ==
    LET r == [Request("list", NoName, NoToken, NoPassword, is_admin) EXCEPT !.hidden = show_hidden]
    IN  /\ IF show_hidden /\ ~is_admin
           THEN Answer(p, Response(r, 403, "Admin access required for hidden files"))
           ELSE \E first \in [blobs -> DOMAIN rows \cup {0}] :
                   /\ \A f \in blobs : first[f] \in Queried(f, broken)
                   /\ Answer(p, Listing(r,
                         {ListingEntry(f, first[f], is_admin) :
                            f \in {g \in blobs : ~Filtered(first[g], is_admin, show_hidden)}}))
        /\ UNCHANGED store

-----------------------------------------------------------------------------
(* Failures of the metadata store: db.session.commit() raises (the         *)
(* database is locked or cannot be written) and the handler's except       *)
(* clause runs.                                                            *)

(* delete_file, lines 342-347: the inner except clause logs the error and  *)
(* rolls back; line 347 answers that the file was deleted.                 *)
DelCommitFails(p) ==
    /\ wk[p].pc = "del_commit"
    /\ Reply(p, 200, "deleted")
    /\ UNCHANGED store

(* check_view_limit_and_delete, lines 92-97: rollback, and the function    *)
(* returns False; the download goes on to send_file.                       *)
DlDelRowFails(p) ==
    /\ wk[p].pc = "dl_delrow"
    /\ Goto(p, "dl_send")
    /\ UNCHANGED store

(* lines 423-435, 472-482, 513-525, 539-550: rollback and 500 *)
MutCommitFails(p) ==
    /\ wk[p].pc = "mut_commit"
    /\ Reply(p, 500, "Failed")
    /\ UNCHANGED store

-----------------------------------------------------------------------------
(* get_stats, app.py 354-385: every file of the upload folder, hidden or   *)
(* not; the records are not read.                                          *)
GetStats(p) ==
    LET r == Request("stats", NoName, NoToken, NoPassword, FALSE)
    IN  /\ Answer(p, Listing(r, {[name |-> f] : f \in blobs}))
        /\ UNCHANGED store

(* health, app.py 387-390 *)
Health(p) ==
    /\ Answer(p, Response(Request("health", NoName, NoToken, NoPassword, FALSE), 200, "healthy"))
    /\ UNCHANGED store

-----------------------------------------------------------------------------
(* hidden_file_access, app.py 582-597 *)

(* line 9: the names imported from flask *)
FlaskImports == {"Flask", "request", "jsonify", "send_file", "send_from_directory", "abort"}

(* line 593: the target of the redirect *)
DownloadUrl(filename, token) == <<"/api/download/", filename, "?token=", token>>

(* line 587: File.query.filter_by(hidden_token=token).first() *)
RowsWithToken(token) == {id \in DOMAIN rows : rows[id].hidden_token = token}

HiddenFileAccess(p, token) ==
    LET r == Request("hidden-access", NoName, token, NoPassword, FALSE)
    IN  /\ \/ /\ RowsWithToken(token) = {}
              /\ Begin(p, r, "hfa_reply", NoSnap)
           \/ \E id \in RowsWithToken(token) : Begin(p, r, "hfa_reply", Loaded(id))
        /\ UNCHANGED store

(* lines 589-597: abort(404) is raised inside the try and caught at line   *)
(* 595, which aborts with 500; redirect is not among the names imported at *)
(* line 9, so line 593 raises NameError, caught at line 595 as well.       *)
HfaReply(p) ==
    /\ wk[p].pc = "hfa_reply"
    /\ IF ~HasRecord(wk[p].snap) \/ ~wk[p].snap.old.is_hidden
       THEN Reply(p, NotFoundCode, "error")
       ELSE IF "redirect" \in FlaskImports
       THEN Reply(p, 302, DownloadUrl(wk[p].snap.old.filename, wk[p].req.token))
       ELSE Reply(p, 500, "error")
    /\ UNCHANGED store

-----------------------------------------------------------------------------
(* Every request the model covers, with every input. *)
Next ==
    \E p \in Procs :
        \/ \E f \in Names, token \in Tokens \cup {NoToken},
              password \in Passwords \cup {NoPassword}, admin \in BOOLEAN :
                DlRead(p, f, token, password, admin)
        \/ DlExists(p)
        \/ DlCommit(p)
        \/ DlCheck(p)
        \/ DlRmExists(p)
        \/ DlRemove(p)
        \/ DlDelRow(p)
        \/ DlSend(p)
        \/ \E display \in DisplayNames, timestamp \in 1..MaxClock,
              is_hidden \in BOOLEAN, view_limit \in Limits,
              password \in Passwords \cup {NoPassword}, admin \in BOOLEAN :
                UpSave(p, display, timestamp, is_hidden, view_limit, password, admin)
        \/ UpInsert(p)
        \/ \E f \in Names, admin \in BOOLEAN : DelExists(p, f, admin)
        \/ DelRemove(p)
        \/ DelRead(p)
        \/ DelCommit(p)
        \/ \E f \in Names, admin \in BOOLEAN : ToggleFileHidden(p, f, admin)
        \/ \E f \in Names, password \in Passwords \cup {NoPassword}, admin \in BOOLEAN :
                SetFilePassword(p, f, password, admin)
        \/ \E f \in Names, view_limit \in Limits, admin \in BOOLEAN :
                SetViewLimit(p, f, view_limit, admin)
        \/ \E f \in Names, admin \in BOOLEAN : ResetViewCount(p, f, admin)
        \/ MutExists(p)
        \/ MutCommit(p)
        \/ MutReply(p)
        \/ \E show_hidden \in BOOLEAN, is_admin \in BOOLEAN, broken \in SUBSET Names :
                GetFiles(p, show_hidden, is_admin, broken)
        \/ DelCommitFails(p)
        \/ DlDelRowFails(p)
        \/ MutCommitFails(p)
        \/ \E token \in Tokens : HiddenFileAccess(p, token)
        \/ HfaReply(p)
        \/ GetStats(p)
        \/ Health(p)

Spec == Init /\ [][Next]_vars

-----------------------------------------------------------------------------
(* The view-limit life cycle: public files uploaded with any view limit,   *)
(* downloaded and deleted by concurrent requests.                          *)
ViewsStep(p) ==
    \/ \E f \in Names : DlRead(p, f, NoToken, NoPassword, FALSE)
    \/ DlExists(p)
    \/ DlCommit(p)
    \/ DlCheck(p)
    \/ DlRmExists(p)
    \/ DlRemove(p)
    \/ DlDelRow(p)
    \/ DlSend(p)
    \/ \E display \in DisplayNames, view_limit \in Limits :
            UpSave(p, display, clock + 1, FALSE, view_limit, NoPassword, TRUE)
    \/ UpInsert(p)
    \/ \E f \in Names : DelExists(p, f, TRUE)
    \/ DelRemove(p)
    \/ DelRead(p)
    \/ DelCommit(p)

NextViews == \E p \in Procs : ViewsStep(p)

SpecViews == Init /\ [][NextViews]_vars

(* The same requests served one at a time: a worker steps only while the   *)
(* others are idle.                                                        *)
Alone(p) == \A q \in Procs \ {p} : wk[q].pc = "idle"

NextSeq == \E p \in Procs : Alone(p) /\ ViewsStep(p)

SpecSeq == Init /\ [][NextSeq]_vars

-----------------------------------------------------------------------------
(* Properties of the view-limit life cycle *)

Finishes(p, op) == wk[p].pc # "idle" /\ wk[p].req.op = op /\ wk'[p].pc = "idle"

(* C1: the download that reaches the view limit and deletes the blob and   *)
(* the record is itself answered with the file's content (200).            *)
C1_LastViewServed ==
    [][\A p \in Procs :
          Finishes(p, "download") /\ wk[p].did => res'[p].code = 200]_vars

(* The record of a download at its send step, as reloaded after its commit *)
Committed(p) == wk[p].pc = "dl_send" /\ wk[p].snap.id # 0

Gone(p) == wk[p].snap.id \notin DOMAIN rows /\ wk[p].req.f \notin blobs

Kept(p) ==
    /\ wk[p].snap.id \in DOMAIN rows
    /\ rows[wk[p].snap.id] = wk[p].snap.old
    /\ wk[p].req.f \in blobs

(* C2, as claimed: served one at a time, an admitted download that leaves  *)
(* view_count >= view_limit, for any non-null limit (0 included), leaves   *)
(* neither record nor blob; any other leaves both.                         *)
C2_AnyLimitDeletes ==
    \A p \in Procs :
        Committed(p) =>
            IF wk[p].snap.old.view_limit # NoLimit
               /\ wk[p].snap.old.view_count >= wk[p].snap.old.view_limit
            THEN Gone(p)
            ELSE Kept(p)

(* C2, amended: the same for a limit N >= 1; a record whose limit is null  *)
(* or 0 is never deleted by a download.                                    *)
C2_PositiveLimitDeletes ==
    \A p \in Procs :
        Committed(p) =>
            IF wk[p].snap.old.view_limit >= 1
               /\ wk[p].snap.old.view_count >= wk[p].snap.old.view_limit
            THEN Gone(p)
            ELSE Kept(p)

(* C2's case: the second download of a record with limit 2 has deleted it. *)
C2_Witness ==
    \E p \in Procs :
        Committed(p) /\ wk[p].did /\ wk[p].snap.old.view_limit = 2 /\ Gone(p)

(* C3: two downloads tied at the last view of a record both end with the   *)
(* file's content.                                                         *)
C3_TiedBothServed ==
    [][\A p \in Procs :
          Finishes(p, "download") /\ wk[p].tied => res'[p].code = 200]_vars

(* C4: the commit of an admitted download raises the stored view_count by  *)
(* exactly one.                                                            *)
C4_NoLostIncrement ==
    [][\A p \in Procs :
          wk[p].pc = "dl_commit" /\ wk'[p].pc = "dl_check" =>
              rows'[wk[p].snap.id].view_count = rows[wk[p].snap.id].view_count + 1]_vars

(* C5: a download that found its blob, and during which another request   *)
(* deleted the blob, ends with the content (200) or NotFound (404).        *)
C5_ContentOrNotFound ==
    [][\A p \in Procs :
          Finishes(p, "download") /\ wk[p].pc = "dl_send" /\ wk[p].raced
              => res'[p].code \in {200, 404}]_vars

(* C9: a download of a stored name without blob ends with NotFound (404).  *)
C9_MissingBlobNotFound ==
    [][\A p \in Procs :
          wk[p].pc = "dl_exists" /\ wk[p].req.f \notin blobs /\ Finishes(p, "download")
              => res'[p].code = 404]_vars

-----------------------------------------------------------------------------
(* Hidden files: files uploaded hidden or public, toggled by concurrent    *)
(* admin requests, listed, and downloaded with any token and key.          *)
OnePassword == {"pw1"}

HiddenStep(p) ==
    \/ \E f \in Names, token \in Tokens \cup {NoToken},
          password \in Passwords \cup {NoPassword}, admin \in BOOLEAN :
            DlRead(p, f, token, password, admin)
    \/ DlExists(p)
    \/ DlCommit(p)
    \/ DlCheck(p)
    \/ DlSend(p)
    \/ \E display \in DisplayNames, is_hidden \in BOOLEAN,
          password \in OnePassword \cup {NoPassword} :
            UpSave(p, display, clock + 1, is_hidden, NoLimit, password, TRUE)
    \/ UpInsert(p)
    \/ \E f \in Names : ToggleFileHidden(p, f, TRUE)
    \/ BlobGone(p) /\ MutExists(p)
    \/ MutCommit(p)
    \/ MutReply(p)
    \/ \E show_hidden \in BOOLEAN, is_admin \in BOOLEAN : GetFiles(p, show_hidden, is_admin, {})

NextHidden == \E p \in Procs : HiddenStep(p)

SpecHidden == Init /\ [][NextHidden]_vars

(* Passwords: public files uploaded with or without password, protected    *)
(* and unprotected by concurrent admin requests, downloaded with any       *)
(* password.                                                               *)
PasswordStep(p) ==
    \/ \E f \in Names, password \in Passwords \cup {NoPassword} :
            DlRead(p, f, NoToken, password, FALSE)
    \/ DlExists(p)
    \/ DlCommit(p)
    \/ DlCheck(p)
    \/ DlSend(p)
    \/ \E display \in DisplayNames, password \in Passwords \cup {NoPassword} :
            UpSave(p, display, clock + 1, FALSE, NoLimit, password, TRUE)
    \/ UpInsert(p)
    \/ \E f \in Names, password \in Passwords \cup {NoPassword} :
            SetFilePassword(p, f, password, TRUE)
    \/ BlobGone(p) /\ MutExists(p)
    \/ MutCommit(p)
    \/ MutReply(p)

NextPassword == \E p \in Procs : PasswordStep(p)

SpecPassword == Init /\ [][NextPassword]_vars

-----------------------------------------------------------------------------
(* Properties of access control *)

Steps(p) == wk'[p].pc # wk[p].pc

(* A download at its authorization, the blob found and a record loaded *)
Authorizing(p) ==
    /\ wk[p].pc = "dl_exists"
    /\ wk[p].req.f \in blobs
    /\ wk[p].snap.id # 0
    /\ Steps(p)

TokenMatches(p) ==
    /\ wk[p].req.token # NoToken
    /\ wk[p].req.token = wk[p].snap.old.hidden_token

(* The password is the one the record's hash was generated from. *)
PasswordMatches(p) ==
    /\ wk[p].req.password # NoPassword
    /\ wk[p].snap.old.password_hash =
          generate_password_hash(wk[p].req.password, wk[p].snap.old.password_hash.salt)

Forbidden(p) == wk'[p].pc = "idle" /\ res'[p].code = 403

Unauthorized(p) == wk'[p].pc = "idle" /\ res'[p].code = 401

Admitted(p) == wk'[p].pc = "dl_commit"

(* C6: a download of a hidden record without the admin key is denied       *)
(* Forbidden when its token is absent or differs from hidden_token,        *)
(* whatever its password; with the token it is not denied Forbidden, and   *)
(* is admitted when the record has no password or the password matches.    *)
C6_HiddenNeedsToken ==
    [][\A p \in Procs :
          Authorizing(p) /\ wk[p].snap.old.is_hidden /\ ~wk[p].req.admin =>
              IF TokenMatches(p)
              THEN /\ ~Forbidden(p)
                   /\ (~wk[p].snap.old.is_password_protected \/ PasswordMatches(p))
                         => Admitted(p)
              ELSE Forbidden(p)]_vars

(* C6's case: one download denied for its token, another admitted with it. *)
C6_Witness ==
    \E p, q \in Procs :
        /\ res[p].op = "download" /\ ~res[p].admin
        /\ res[p].body = "Invalid or missing access token"
        /\ wk[q].pc = "dl_commit" /\ ~wk[q].req.admin
        /\ wk[q].snap.old.is_hidden
        /\ wk[q].req.token = wk[q].snap.old.hidden_token

(* C7, as claimed: a download of a hidden record with the admin key is     *)
(* never denied Forbidden.                                                 *)
C7_AdminNeedsNoToken ==
    [][\A p \in Procs :
          Authorizing(p) /\ wk[p].snap.old.is_hidden /\ wk[p].req.admin
              => ~Forbidden(p)]_vars

(* C7, amended: the admin key does not replace the token; a download of a  *)
(* hidden record with the admin key and a missing or wrong token is denied *)
(* Forbidden.                                                              *)
C7_AdminNeedsToken ==
    [][\A p \in Procs :
          Authorizing(p) /\ wk[p].snap.old.is_hidden /\ wk[p].req.admin
            /\ ~TokenMatches(p)
              => Forbidden(p)]_vars

(* C7's case: a download with the admin key was denied for its token.      *)
C7_Witness ==
    \E p \in Procs :
        /\ res[p].op = "download" /\ res[p].admin
        /\ res[p].code = 403
        /\ res[p].body = "Invalid or missing access token"

(* C8: a download of a password-protected record that passed the token     *)
(* check is denied Unauthorized with requiresPassword when it has no       *)
(* password, denied Unauthorized when its password does not match the      *)
(* hash, and admitted when it does.                                        *)
C8_PasswordChecked ==
    [][\A p \in Procs :
          Authorizing(p) /\ wk[p].snap.old.is_password_protected
            /\ (wk[p].snap.old.is_hidden => TokenMatches(p)) =>
              IF wk[p].req.password = NoPassword
              THEN Unauthorized(p) /\ res'[p].body = "Password required, requiresPassword"
              ELSE IF PasswordMatches(p) THEN Admitted(p)
              ELSE Unauthorized(p)]_vars

(* A listing answered in this step *)
Lists(p) == res'[p] # res[p] /\ res'[p].op = "list" /\ res'[p].code = 200

(* C10, as claimed: a listing without hidden=true returns no entry of a    *)
(* hidden record, whoever asks.                                            *)
C10_NoHiddenListed ==
    [][\A p \in Procs :
          Lists(p) /\ ~res'[p].hidden
              => \A e \in res'[p].entries : ~e.isHidden]_vars

(* C10, amended: a listing without hidden=true by a caller without the     *)
(* admin key returns no entry of a hidden record.                          *)
C10_NoHiddenListedPublicly ==
    [][\A p \in Procs :
          Lists(p) /\ ~res'[p].hidden /\ ~res'[p].admin
              => \A e \in res'[p].entries : ~e.isHidden]_vars

(* C10's case: a public listing that left out the hidden file.             *)
C10_Witness ==
    \E p \in Procs :
        /\ res[p].op = "list" /\ ~res[p].admin /\ ~res[p].hidden
        /\ res[p].code = 200
        /\ res[p].entries = {}
        /\ \E id \in DOMAIN rows : rows[id].is_hidden /\ rows[id].filename \in blobs

-----------------------------------------------------------------------------
(* Listings: files uploaded hidden or public and toggled by admin          *)
(* requests, listed by any caller, with a metadata store that may fail a   *)
(* listing's query.                                                        *)
ListingStep(p) ==
    \/ \E display \in DisplayNames, is_hidden \in BOOLEAN :
            UpSave(p, display, clock + 1, is_hidden, NoLimit, NoPassword, TRUE)
    \/ UpInsert(p)
    \/ \E f \in Names : ToggleFileHidden(p, f, TRUE)
    \/ BlobGone(p) /\ MutExists(p)
    \/ MutCommit(p)
    \/ MutReply(p)
    \/ \E show_hidden \in BOOLEAN, is_admin \in BOOLEAN, broken \in SUBSET Names :
            GetFiles(p, show_hidden, is_admin, broken)

NextListing == \E p \in Procs : ListingStep(p)

SpecListing == Init /\ [][NextListing]_vars

(* A listing request answered in this step, with any status *)
ListsAny(p) == res'[p] # res[p] /\ res'[p].op = "list"

HiddenNames == {rows[id].filename : id \in {i \in DOMAIN rows : rows[i].is_hidden}}

(* C11: a listing answered to a caller without the admin key is Forbidden  *)
(* without entries when it asks for the hidden files, and otherwise has no *)
(* entry of a hidden record and no entry carrying a token.                 *)
C11_NothingHiddenLeaks ==
    [][\A p \in Procs :
          ListsAny(p) /\ ~res'[p].admin =>
              IF res'[p].hidden
              THEN res'[p].code = 403 /\ res'[p].entries = {}
              ELSE \A e \in res'[p].entries :
                      e.name \notin HiddenNames /\ e.hiddenToken = NoToken]_vars

-----------------------------------------------------------------------------
(* Tokens: every operation that writes the File table, records created by *)
(* mutations included: files uploaded hidden or public, toggled, deleted   *)
(* and mutated (to no password, to no limit) by concurrent requests, and   *)
(* downloaded with token t1 between them, while no record has been         *)
(* downloaded before.                                                      *)
NeverViewed == \A id \in DOMAIN rows : rows[id].last_accessed = NoStamp

TokensStep(p) ==
    \/ \E display \in DisplayNames, is_hidden \in BOOLEAN :
            UpSave(p, display, clock + 1, is_hidden, NoLimit, NoPassword, TRUE)
    \/ UpInsert(p)
    \/ \E f \in Names : ToggleFileHidden(p, f, TRUE)
    \/ \E f \in Names : SetFilePassword(p, f, NoPassword, TRUE)
    \/ \E f \in Names : SetViewLimit(p, f, NoLimit, TRUE)
    \/ \E f \in Names : ResetViewCount(p, f, TRUE)
    \/ MutExists(p)
    \/ MutCommit(p)
    \/ MutReply(p)
    \/ \E f \in Names : DelExists(p, f, TRUE)
    \/ DelRemove(p)
    \/ DelRead(p)
    \/ DelCommit(p)
    \/ Alone(p) /\ NeverViewed /\ \E f \in Names : DlRead(p, f, "t1", NoPassword, FALSE)
    \/ Alone(p) /\ DlExists(p)
    \/ Alone(p) /\ DlCommit(p)
    \/ Alone(p) /\ DlCheck(p)
    \/ Alone(p) /\ DlSend(p)

NextTokens == \E p \in Procs : TokensStep(p)

SpecTokens == Init /\ [][NextTokens]_vars

(* C12: every record is hidden if and only if it has a token.              *)
C12_HiddenIffToken ==
    \A id \in DOMAIN rows : rows[id].is_hidden <=> rows[id].hidden_token # NoToken

(* C12's case: toggles answered, with a hidden and a public record of the  *)
(* same blob, one uploaded and one created by a mutation.                  *)
C12_Witness ==
    /\ \E p \in Procs : res[p].op = "toggle" /\ res[p].code = 200
    /\ \E i, j \in DOMAIN rows :
          /\ rows[i].is_hidden /\ rows[i].hidden_token # NoToken
          /\ ~rows[j].is_hidden /\ rows[j].hidden_token = NoToken

-----------------------------------------------------------------------------
(* C13: every record is password protected if and only if it has a hash.   *)
C13_ProtectedIffHash ==
    \A id \in DOMAIN rows :
        rows[id].is_password_protected <=> rows[id].password_hash # NoHash

-----------------------------------------------------------------------------
TokensUnique ==
    \A i, j \in DOMAIN rows :
        i # j /\ rows[i].hidden_token # NoToken
            => rows[i].hidden_token # rows[j].hidden_token

(* A hidden upload at its insert, and a toggle at the commit of a new      *)
(* token on a record that exists.                                          *)
DrawsOnUpload(p) ==
    wk[p].pc = "up_insert" /\ wk[p].req.hidden /\ wk'[p].pc = "idle"

DrawsOnToggle(p) ==
    /\ wk[p].pc = "mut_commit" /\ wk[p].req.op = "toggle"
    /\ wk[p].snap.new.hidden_token # wk[p].snap.old.hidden_token
    /\ wk[p].snap.new.hidden_token # NoToken
    /\ wk[p].snap.pending \/ wk[p].snap.id \in DOMAIN rows
    /\ wk'[p].pc # "mut_commit"

(* C14: no two records hold the same token, and an upload or a toggle that *)
(* draws a token succeeds with it or with another: the hidden upload       *)
(* inserts its hidden record, the toggle commits.                          *)
C14_UniqueByReroll ==
    [][/\ TokensUnique'
       /\ \A p \in Procs :
             /\ DrawsOnUpload(p) =>
                   \E id \in DOMAIN rows' \ DOMAIN rows :
                       /\ rows'[id].filename = wk[p].req.f
                       /\ rows'[id].is_hidden
                       /\ rows'[id].hidden_token # NoToken
             /\ DrawsOnToggle(p) => wk'[p].pc = "mut_reply"]_vars

-----------------------------------------------------------------------------
(* Names: uploads of one display name, which may fall into the same        *)
(* millisecond, and the mutations that create the record of a blob that    *)
(* has none, by concurrent requests.                                       *)
NamesStep(p) ==
    \/ \E display \in DisplayNames, timestamp \in 1..MaxClock :
            UpSave(p, display, timestamp, FALSE, NoLimit, NoPassword, TRUE)
    \/ UpInsert(p)
    \/ \E f \in Names : ToggleFileHidden(p, f, TRUE)
    \/ \E f \in Names : SetFilePassword(p, f, NoPassword, TRUE)
    \/ \E f \in Names : SetViewLimit(p, f, NoLimit, TRUE)
    \/ MutExists(p)
    \/ MutCommit(p)
    \/ MutReply(p)
    \/ \E f \in Names : DelExists(p, f, TRUE)
    \/ DelRemove(p)
    \/ DelRead(p)
    \/ DelCommit(p)

NextNames == \E p \in Procs : NamesStep(p)

SpecNames == Init /\ [][NextNames]_vars

OneRecordPerName ==
    \A i, j \in DOMAIN rows : i # j => rows[i].filename # rows[j].filename

(* An upload saving its file in this step *)
Saves(p) == wk[p].pc = "idle" /\ wk'[p].pc = "up_insert"

(* C15: no two records have the same stored name, and an upload saves its  *)
(* file under a stored name that no blob has.                              *)
C15_StoredNamesUnique ==
    [][/\ OneRecordPerName'
       /\ \A p \in Procs : Saves(p) => wk'[p].req.f \notin blobs]_vars

(* No request is being served *)
Quiescent == \A p \in Procs : wk[p].pc = "idle"

(* C16: when no request is in progress, every record's stored name has a   *)
(* blob.                                                                   *)
C16_NoOrphanRecord ==
    Quiescent => \A id \in DOMAIN rows : rows[id].filename \in blobs

-----------------------------------------------------------------------------
(* Failures: uploads, deletions, downloads up to the view limit and        *)
(* mutations, whose commits may fail.                                      *)
FailureStep(p) ==
    \/ \E display \in DisplayNames, view_limit \in {NoLimit, 1} :
            UpSave(p, display, clock + 1, FALSE, view_limit, NoPassword, TRUE)
    \/ UpInsert(p)
    \/ \E f \in Names : DelExists(p, f, TRUE)
    \/ DelRemove(p)
    \/ DelRead(p)
    \/ DelCommit(p)
    \/ DelCommitFails(p)
    \/ \E f \in Names : ToggleFileHidden(p, f, TRUE)
    \/ \E f \in Names : ResetViewCount(p, f, TRUE)
    \/ BlobGone(p) /\ MutExists(p)
    \/ MutCommit(p)
    \/ MutCommitFails(p)
    \/ MutReply(p)
    \/ Alone(p) /\ \E f \in Names : DlRead(p, f, NoToken, NoPassword, FALSE)
    \/ Alone(p) /\ DlExists(p)
    \/ Alone(p) /\ DlCommit(p)
    \/ Alone(p) /\ DlCheck(p)
    \/ Alone(p) /\ DlRmExists(p)
    \/ Alone(p) /\ DlRemove(p)
    \/ Alone(p) /\ DlDelRow(p)
    \/ Alone(p) /\ DlDelRowFails(p)
    \/ Alone(p) /\ DlSend(p)

NextFailure == \E p \in Procs : FailureStep(p)

SpecFailure == Init /\ [][NextFailure]_vars

(* The record that worker p is deleting is in the table *)
Deleting(p) == wk[p].snap.id \in DOMAIN rows

(* No record of stored name f without its blob *)
NotOrphaned(f) == RowsNamed(f) = {} \/ f \in blobs

(* C17: a mutating operation during which the store fails answers 500 and  *)
(* leaves no record whose blob it removed.                                 *)
C17_FailureIsInternal ==
    [][\A p \in Procs :
          /\ MutCommitFails(p) => res'[p].code = 500 /\ rows' = rows /\ blobs' = blobs
          /\ DelCommitFails(p) /\ Deleting(p) =>
                res'[p].code = 500 /\ NotOrphaned(wk[p].req.f)'
          /\ DlDelRowFails(p) /\ Deleting(p) => NotOrphaned(wk[p].req.f)']_vars

-----------------------------------------------------------------------------
(* A download arrives: its record is loaded (line 284) *)
Arrives(p) == wk[p].pc = "idle" /\ wk'[p].pc = "dl_exists"

(* A download is answered at lines 289-302, before line 305 *)
Refuses(p) == wk[p].pc = "dl_exists" /\ wk'[p].pc = "idle"

(* C18: a download answered 401, 403 or 404 is refused before the view is  *)
(* counted, and the steps of a refused download, the refusal for a missing *)
(* blob included, change no record, no blob and no other stored value.     *)
C18_DenialChangesNothing ==
    [][\A p \in Procs :
          /\ Finishes(p, "download") /\ res'[p].code \in {401, 403, 404} => Refuses(p)
          /\ Arrives(p) \/ Refuses(p) => UNCHANGED store]_vars

C18_Witness ==
    /\ \E p, q \in Procs :
          /\ res[p].op = "download" /\ res[p].code = 403
          /\ res[q].op = "download" /\ res[q].code = 401
    /\ \E id \in DOMAIN rows : rows[id].view_count = 0 /\ rows[id].last_accessed = NoStamp

-----------------------------------------------------------------------------
(* Keys: an admin mutation sent with every Authorization header and every  *)
(* adminKey parameter, on the blobs an admin uploaded.                     *)
KeysStep(p) ==
    \/ \E display \in DisplayNames :
            UpSave(p, display, clock + 1, FALSE, NoLimit, NoPassword, TRUE)
    \/ UpInsert(p)
    \/ \E f \in Names, authorization \in Keys, adminKey \in Keys :
            MutRead(p, Keyed(Request("toggle", f, NoToken, NoPassword, FALSE),
                             authorization, adminKey))
    \/ BlobGone(p) /\ MutExists(p)
    \/ MutCommit(p)
    \/ MutReply(p)

NextKeys == \E p \in Procs : KeysStep(p)

SpecKeys == Init /\ [][NextKeys]_vars

(* Worker p takes a request in this step; the request it takes *)
Takes(p) == wk[p].pc = "idle" /\ (wk'[p].pc # "idle" \/ res'[p] # res[p])

Taken(p) == IF wk'[p].pc # "idle" THEN wk'[p].req ELSE res'[p]

(* The decorator answers: line 61 *)
AccessDenied(p) ==
    /\ wk'[p].pc = "idle"
    /\ res'[p].code = 403
    /\ res'[p].body = "Access denied. Admin key required."

HasSecret(key) == key = valid_key \/ key = Bearer(valid_key)

(* C19: an admin mutation is let through exactly when its Authorization    *)
(* header or its adminKey parameter is the secret, bare or after 'Bearer ';*)
(* any other request is answered 403 and changes nothing.                  *)
C19_EitherKeyAdmits ==
    [][\A p \in Procs :
          Takes(p) /\ Taken(p).op = "toggle" =>
             IF HasSecret(Taken(p).key.authorization) \/ HasSecret(Taken(p).key.adminKey)
             THEN ~AccessDenied(p)
             ELSE AccessDenied(p) /\ UNCHANGED store]_vars

-----------------------------------------------------------------------------
(* C20: the display name a listing computes for the blob that an upload    *)
(* stored for an allowed display name n at timestamp t is n.               *)
C20_NameRoundTrip ==
    \A p \in Procs : res[p].op = "list" =>
        \A e \in res[p].entries :
            \A n \in DisplayNames, t \in 1..MaxClock :
                allowed_file(n) /\ e.name = StoredName(n, t) => e.originalName = n

-----------------------------------------------------------------------------
(* Access by token: hidden and public uploads, toggles, and GET /h/<token> *)
(* with every token.                                                       *)
AccessStep(p) ==
    \/ \E display \in DisplayNames, is_hidden \in BOOLEAN :
            UpSave(p, display, clock + 1, is_hidden, NoLimit, NoPassword, TRUE)
    \/ UpInsert(p)
    \/ \E f \in Names : ToggleFileHidden(p, f, TRUE)
    \/ BlobGone(p) /\ MutExists(p)
    \/ MutCommit(p)
    \/ MutReply(p)
    \/ \E token \in Tokens : HiddenFileAccess(p, token)
    \/ HfaReply(p)

NextAccess == \E p \in Procs : AccessStep(p)

SpecAccess == Init /\ [][NextAccess]_vars

(* The record that GET /h/<token> of worker p found is hidden *)
FoundHidden(p) == HasRecord(wk[p].snap) /\ wk[p].snap.old.is_hidden

(* C21: GET /h/<token> answers 302 to /api/download/<filename>?token=<token> *)
(* when a hidden record has the token, and 404 when none has.              *)
C21_TokenRedirects ==
    [][\A p \in Procs :
          Finishes(p, "hidden-access") =>
             IF FoundHidden(p)
             THEN /\ res'[p].code = 302
                  /\ res'[p].body = DownloadUrl(wk[p].snap.old.filename, wk[p].req.token)
             ELSE res'[p].code = 404]_vars

-----------------------------------------------------------------------------
(* A download that loaded no record, at the given step, moving on *)
Legacy(p, at) ==
    /\ wk[p].req.op = "download"
    /\ wk[p].pc = at
    /\ ~HasRecord(wk[p].snap)
    /\ Steps(p)

LegacyEntry(e) ==
    /\ ~e.isHidden
    /\ ~e.isPasswordProtected
    /\ e.hiddenToken = NoToken
    /\ e.viewCount = 0
    /\ e.viewLimit = NoLimit

(* C22: a download that finds the blob and no record is admitted whatever  *)
(* its token and password, is answered with the content while the blob is  *)
(* there, and changes no stored value; a listing shows a blob without      *)
(* record as public, unprotected, with no views and no limit.              *)
C22_LegacyBlobPublic ==
    [][\A p \in Procs :
          /\ Legacy(p, "dl_exists") /\ wk[p].req.f \in blobs =>
                wk'[p].pc = "dl_send" /\ UNCHANGED store
          /\ Legacy(p, "dl_send") =>
                /\ UNCHANGED store
                /\ wk[p].req.f \in blobs => res'[p].code = 200
          /\ Lists(p) =>
                \A e \in res'[p].entries : RowsNamed(e.name) = {} => LegacyEntry(e)]_vars

C22_Witness ==
    /\ rows = <<>>
    /\ blobs # {}
    /\ \E p \in Procs :
          /\ wk[p].pc = "dl_send" /\ ~HasRecord(wk[p].snap)
          /\ wk[p].req.f \in blobs
          /\ wk[p].req.token # NoToken /\ wk[p].req.password # NoPassword

-----------------------------------------------------------------------------
(* Limits: uploads with every view limit, downloads, set-view-limit with   *)
(* every limit and reset-views, served one at a time.                      *)
LimitsStep(p) ==
    \/ Alone(p) /\ \E display \in DisplayNames, view_limit \in Limits :
                        UpSave(p, display, clock + 1, FALSE, view_limit, NoPassword, TRUE)
    \/ Alone(p) /\ UpInsert(p)
    \/ Alone(p) /\ \E f \in Names : DlRead(p, f, NoToken, NoPassword, FALSE)
    \/ Alone(p) /\ DlExists(p)
    \/ Alone(p) /\ DlCommit(p)
    \/ Alone(p) /\ DlCheck(p)
    \/ Alone(p) /\ DlRmExists(p)
    \/ Alone(p) /\ DlRemove(p)
    \/ Alone(p) /\ DlDelRow(p)
    \/ Alone(p) /\ DlSend(p)
    \/ Alone(p) /\ \E f \in Names, view_limit \in Limits : SetViewLimit(p, f, view_limit, TRUE)
    \/ Alone(p) /\ \E f \in Names : ResetViewCount(p, f, TRUE)
    \/ Alone(p) /\ MutExists(p)
    \/ Alone(p) /\ MutCommit(p)
    \/ Alone(p) /\ MutReply(p)

NextLimits == \E p \in Procs : LimitsStep(p)

SpecLimits == Init /\ [][NextLimits]_vars

(* C23: when no request is in progress, every record with a view limit has *)
(* fewer views than its limit.                                             *)
C23_BelowLimitAtRest ==
    Quiescent =>
        \A id \in DOMAIN rows :
            rows[id].view_limit # NoLimit => rows[id].view_count < rows[id].view_limit

-----------------------------------------------------------------------------
(* Public endpoints: hidden and public uploads, toggles, and the listing,  *)
(* the statistics and the health check.                                    *)
PublicStep(p) ==
    \/ \E display \in DisplayNames, is_hidden \in BOOLEAN :
            UpSave(p, display, clock + 1, is_hidden, NoLimit, NoPassword, TRUE)
    \/ UpInsert(p)
    \/ \E f \in Names : ToggleFileHidden(p, f, TRUE)
    \/ BlobGone(p) /\ MutExists(p)
    \/ MutCommit(p)
    \/ MutReply(p)
    \/ \E show_hidden \in BOOLEAN, is_admin \in BOOLEAN : GetFiles(p, show_hidden, is_admin, {})
    \/ GetStats(p)
    \/ Health(p)

NextPublic == \E p \in Procs : PublicStep(p)

SpecPublic == Init /\ [][NextPublic]_vars

(* Worker p is answered without the admin key by one of the endpoints that *)
(* need none.                                                              *)
AnswersPublicly(p) ==
    /\ res'[p] # res[p]
    /\ res'[p].op \in {"list", "stats", "health"}
    /\ ~res'[p].admin

(* What a state shows of its blobs when the hidden records, their blobs    *)
(* included, are left out.                                                 *)
PublicNames == blobs \ HiddenNames

(* C24: the answer of the listing, the statistics and the health check to  *)
(* a caller without the admin key is determined by the state without its   *)
(* hidden files: it names the blobs that are not hidden and no other.      *)
C24_HiddenFilesInvisible ==
    [][\A p \in Procs :
          AnswersPublicly(p) =>
             {e.name : e \in res'[p].entries} =
                IF res'[p].code = 200 /\ res'[p].op # "health" THEN PublicNames ELSE {}]_vars

=============================================================================
